---- MODULE Spec2Model ----
(***************************************************************************)
(* Model of cli::detail::CommandProcessor (commandprocessor.h): the        *)
(* dispatch of one (Symbol, text) pair per key event onto the session,     *)
(* the terminal (edit buffer) and the input device.                        *)
(*                                                                         *)
(* Texts are sequences of one-character strings.  Every call NewCommand    *)
(* makes is appended to the log of the event that makes it, together with  *)
(* the deactivation depth of the input device at the moment of the call.   *)
(* terminal.h, inputdevice.h, cli.h and commonprefix.h are not part of the *)
(* sources at hand: Terminal, InputDevice, the session's answers and       *)
(* CommonPrefix are modelled from their documented contracts.              *)
(***************************************************************************)
EXTENDS Integers, Sequences, FiniteSets, TLC

VARIABLES
    terminal,   \* Terminal<SCREEN>: [currentLine, position]
    kbDepth,    \* InputDevice: deactivation nesting depth, 0 = active
    stack,      \* command events suspended inside Session.Feed, innermost last
    last,       \* the event whose handling ended most recently
    nEvents,    \* key events delivered to the registered callback
    nDeact,     \* DeactivateInput calls made so far
    nAct,       \* ActivateInput calls made so far
    nExit,      \* Session.Exit calls made so far
    nEof,       \* eof symbols dispatched so far
    threw,      \* some Session.Feed has left by an exception
    nKeypressed,\* Terminal.Keypressed calls made so far
    nDispatch,  \* NewCommand calls made so far
    cmds,       \* texts the translator returned with Symbol::command, in order
    feeds,      \* arguments of the Session.Feed calls, in order
    cpIn,       \* CommonPrefix: the argument under test
    cpOut,      \* CommonPrefix: the value returned for cpIn
    cpDone      \* CommonPrefix: cpOut has been computed

vars == <<terminal, kbDepth, stack, last, nEvents, nDeact, nAct, nExit, nEof,
          threw, nKeypressed, nDispatch, cmds, feeds, cpIn, cpOut, cpDone>>

procVars == <<terminal, kbDepth, stack, last, nEvents, nDeact, nAct, nExit,
              nEof, threw, nKeypressed, nDispatch, cmds, feeds>>

cpVars == <<cpIn, cpOut, cpDone>>

----------------------------------------------------------------------------
(* Bounds *)

Alphabet == {"a", "b"}

MaxLen == 1

MaxCands == 2

MaxEvents == 2

MaxDepth == 2

MaxSeq == 3

MaxWord == 2

StringsOf(n) == UNION {[1..k -> Alphabet] : k \in 0..n}

Strings == StringsOf(MaxLen)

CompletionSets == UNION {[1..k -> Strings] : k \in 0..MaxCands}

Words == StringsOf(MaxWord)

PrefixInputs == UNION {[1..k -> Words] : k \in 1..MaxSeq}

----------------------------------------------------------------------------
(* Strings *)

IsPrefix(p, s) == Len(p) <= Len(s) /\ \A i \in 1..Len(p) : p[i] = s[i]

\* index of the first shortest element (std::min_element on size)
MinElement(v) ==
    CHOOSE i \in 1..Len(v) :
        /\ \A j \in 1..Len(v) : Len(v[i]) <= Len(v[j])
        /\ \A j \in 1..(i - 1) : Len(v[j]) > Len(v[i])

RECURSIVE CommonPrefixLoop(_, _, _, _)
CommonPrefixLoop(v, smin, i, prefix) ==
    IF i > Len(smin) THEN prefix
    ELSE IF \E x \in 1..Len(v) : v[x][i] # smin[i] THEN prefix
    ELSE CommonPrefixLoop(v, smin, i + 1, Append(prefix, smin[i]))

\* compares only the first two elements
CommonPrefixFirstTwo(v) ==
    LET w == IF Len(v) > 2 THEN SubSeq(v, 1, 2) ELSE v
    IN  CommonPrefixLoop(w, w[MinElement(w)], 1, <<>>)

CommonPrefix(v) == CommonPrefixLoop(v, v[MinElement(v)], 1, <<>>)

----------------------------------------------------------------------------
(* Terminal: the edit buffer and its cursor *)

GetLine(t) == t.currentLine

SetLine(t, newLine) == [currentLine |-> newLine, position |-> Len(newLine)]

ResetCursor(t) == [t EXCEPT !.position = 0]

Clear(t) == t

Keys ==
    [type : {"ascii"}, ch : Alphabet \cup {"\t"}]
    \cup [type : {"eof", "backspace", "up", "down", "ret", "clear", "ignored"},
          ch : {" "}]

Result(sym, text, t) == [sym |-> sym, text |-> text, term |-> t]

TerminalKeypressed(t, k) ==
    LET line == t.currentLine
        pos == t.position
    IN  CASE k.type = "eof" -> Result("eof", <<>>, t)
          [] k.type = "up" -> Result("up", <<>>, t)
          [] k.type = "down" -> Result("down", <<>>, t)
          [] k.type = "clear" -> Result("clear", <<>>, t)
          [] k.type = "ret" ->
                Result("command", line, [currentLine |-> <<>>, position |-> 0])
          [] k.type = "ascii" /\ k.ch = "\t" -> Result("tab", <<>>, t)
          [] k.type = "ascii" /\ k.ch # "\t" ->
                Result("nothing", <<>>,
                       [currentLine |-> SubSeq(line, 1, pos) \o <<k.ch>>
                                          \o SubSeq(line, pos + 1, Len(line)),
                        position |-> pos + 1])
          [] k.type = "backspace" /\ pos > 0 ->
                Result("nothing", <<>>,
                       [currentLine |-> SubSeq(line, 1, pos - 1)
                                          \o SubSeq(line, pos + 1, Len(line)),
                        position |-> pos - 1])
          [] OTHER -> Result("nothing", <<>>, t)

----------------------------------------------------------------------------
(* InputDevice: pause and resume of key delivery *)

DeactivateInput(d) == d + 1

ActivateInput(d) == IF d > 0 THEN d - 1 ELSE 0

----------------------------------------------------------------------------
(* The calls NewCommand makes, case by case *)

Call(op, arg) == [op |-> op, arg |-> arg]

RECURSIVE Items(_)
Items(completions) ==
    IF completions = <<>> THEN <<>>
    ELSE (<<"\t">> \o Head(completions)) \o Items(Tail(completions))

\* the prompt is redisplayed on every key
CaseNothingPrompts == <<Call("Prompt", <<>>)>>

\* the break is missing: control falls into case Symbol::eof
CaseNothingFallsToEof == <<Call("Exit", <<>>)>>

CaseNothing == <<>>

CaseEofThenPrompt == <<Call("Exit", <<>>), Call("Prompt", <<>>)>>

CaseEof == <<Call("Exit", <<>>)>>

CaseCommandEnterFeedFirst(text) ==
    <<Call("Feed", text), Call("DeactivateInput", <<>>)>>

CaseCommandEnterNoDeactivate(text) == <<Call("Feed", text)>>

\* the text is fed without its last character
CaseCommandEnterDropsLast(text) ==
    <<Call("DeactivateInput", <<>>),
      Call("Feed", SubSeq(text, 1, Len(text) - 1))>>

\* up to the moment control is inside Session.Feed
CaseCommandEnter(text) ==
    <<Call("DeactivateInput", <<>>), Call("Feed", text)>>

CaseCommandResumeNoActivate == <<Call("Prompt", <<>>)>>

\* after Session.Feed has returned
CaseCommandResume == <<Call("Prompt", <<>>), Call("ActivateInput", <<>>)>>

CaseDown(next) == <<Call("NextCmd", <<>>), Call("SetLine", next)>>

\* the history is asked without the line in progress
CaseUpNoLine(line, prev) ==
    <<Call("GetLine", <<>>), Call("PreviousCmd", <<>>), Call("SetLine", prev)>>

CaseUp(line, prev) ==
    <<Call("GetLine", <<>>), Call("PreviousCmd", line), Call("SetLine", prev)>>

\* the line is restored before the prompt is written
ListingRestoresFirst(line, completions) ==
    <<Call("Write", <<"\n">>),
      Call("Write", Items(completions)),
      Call("Write", <<"\n">>),
      Call("SetLine", line),
      Call("Prompt", <<>>),
      Call("ResetCursor", <<>>)>>

Listing(line, completions) ==
    <<Call("Write", <<"\n">>),
      Call("Write", Items(completions)),
      Call("Write", <<"\n">>),
      Call("Prompt", <<>>),
      Call("ResetCursor", <<>>),
      Call("SetLine", line)>>

TabQuery(line) == <<Call("GetLine", <<>>), Call("GetCompletions", line)>>

\* the single candidate is set without the trailing space
CaseTabNoSpace(line, completions) ==
    IF completions = <<>> THEN TabQuery(line)
    ELSE IF Len(completions) = 1
         THEN TabQuery(line) \o <<Call("SetLine", completions[1])>>
    ELSE LET commonPrefix == CommonPrefix(completions)
         IN  IF Len(commonPrefix) > Len(line)
             THEN TabQuery(line) \o <<Call("CommonPrefix", <<>>),
                                      Call("SetLine", commonPrefix)>>
             ELSE TabQuery(line) \o <<Call("CommonPrefix", <<>>)>>
                    \o Listing(line, completions)

\* the listing restores the common prefix instead of the line
CaseTabListingSetsPrefix(line, completions) ==
    IF completions = <<>> THEN TabQuery(line)
    ELSE IF Len(completions) = 1
         THEN TabQuery(line) \o <<Call("SetLine", completions[1] \o <<" ">>)>>
    ELSE LET commonPrefix == CommonPrefix(completions)
         IN  IF Len(commonPrefix) > Len(line)
             THEN TabQuery(line) \o <<Call("CommonPrefix", <<>>),
                                      Call("SetLine", commonPrefix)>>
             ELSE TabQuery(line) \o <<Call("CommonPrefix", <<>>)>>
                    \o Listing(commonPrefix, completions)

\* the prefix branch is taken on equal length too
CaseTabGeq(line, completions) ==
    IF completions = <<>> THEN TabQuery(line)
    ELSE IF Len(completions) = 1
         THEN TabQuery(line) \o <<Call("SetLine", completions[1] \o <<" ">>)>>
    ELSE LET commonPrefix == CommonPrefix(completions)
         IN  IF Len(commonPrefix) >= Len(line)
             THEN TabQuery(line) \o <<Call("CommonPrefix", <<>>),
                                      Call("SetLine", commonPrefix)>>
             ELSE TabQuery(line) \o <<Call("CommonPrefix", <<>>)>>
                    \o Listing(line, completions)

\* the empty answer is not tested for: the listing is written
CaseTabEmptyLists(line, completions) ==
    IF completions = <<>> THEN TabQuery(line) \o Listing(line, completions)
    ELSE IF Len(completions) = 1
         THEN TabQuery(line) \o <<Call("SetLine", completions[1] \o <<" ">>)>>
    ELSE LET commonPrefix == CommonPrefix(completions)
         IN  IF Len(commonPrefix) > Len(line)
             THEN TabQuery(line) \o <<Call("CommonPrefix", <<>>),
                                      Call("SetLine", commonPrefix)>>
             ELSE TabQuery(line) \o <<Call("CommonPrefix", <<>>)>>
                    \o Listing(line, completions)

\* the listing leaves the buffer empty
CaseTabListingClearsLine(line, completions) ==
    IF completions = <<>> THEN TabQuery(line)
    ELSE IF Len(completions) = 1
         THEN TabQuery(line) \o <<Call("SetLine", completions[1] \o <<" ">>)>>
    ELSE LET commonPrefix == CommonPrefix(completions)
         IN  IF Len(commonPrefix) > Len(line)
             THEN TabQuery(line) \o <<Call("CommonPrefix", <<>>),
                                      Call("SetLine", commonPrefix)>>
             ELSE TabQuery(line) \o <<Call("CommonPrefix", <<>>)>>
                    \o Listing(<<>>, completions)

CaseTab(line, completions) ==
    IF completions = <<>> THEN TabQuery(line)
    ELSE IF Len(completions) = 1
         THEN TabQuery(line) \o <<Call("SetLine", completions[1] \o <<" ">>)>>
    ELSE LET commonPrefix == CommonPrefix(completions)
         IN  IF Len(commonPrefix) > Len(line)
             THEN TabQuery(line) \o <<Call("CommonPrefix", <<>>),
                                      Call("SetLine", commonPrefix)>>
             ELSE TabQuery(line) \o <<Call("CommonPrefix", <<>>)>>
                    \o Listing(line, completions)

\* the buffer is not captured before the clear
CaseClearLosesLine(currentLine) ==
    <<Call("Clear", <<>>),
      Call("Prompt", <<>>),
      Call("ResetCursor", <<>>),
      Call("SetLine", <<>>)>>

\* the prompt is written before the screen is cleared
CaseClearPromptFirst(currentLine) ==
    <<Call("GetLine", <<>>),
      Call("Prompt", <<>>),
      Call("Clear", <<>>),
      Call("ResetCursor", <<>>),
      Call("SetLine", currentLine)>>

CaseClear(currentLine) ==
    <<Call("GetLine", <<>>),
      Call("Clear", <<>>),
      Call("Prompt", <<>>),
      Call("ResetCursor", <<>>),
      Call("SetLine", currentLine)>>

----------------------------------------------------------------------------
(* The effect of a sequence of calls on the collaborators *)

TerminalCall(t, c) ==
    CASE c.op = "SetLine" -> SetLine(t, c.arg)
      [] c.op = "ResetCursor" -> ResetCursor(t)
      [] c.op = "Clear" -> Clear(t)
      [] OTHER -> t

InputCall(d, c) ==
    CASE c.op = "DeactivateInput" -> DeactivateInput(d)
      [] c.op = "ActivateInput" -> ActivateInput(d)
      [] OTHER -> d

\* the terminal after the first n of the calls
RECURSIVE ApplyTerminalTo(_, _, _)
ApplyTerminalTo(t, calls, n) ==
    IF n = 0 THEN t
    ELSE TerminalCall(ApplyTerminalTo(t, calls, n - 1), calls[n])

ApplyTerminal(t, calls) == ApplyTerminalTo(t, calls, Len(calls))

\* the deactivation depth after the first n of the calls
RECURSIVE ApplyInputTo(_, _, _)
ApplyInputTo(d, calls, n) ==
    IF n = 0 THEN d
    ELSE InputCall(ApplyInputTo(d, calls, n - 1), calls[n])

ApplyInput(d, calls) == ApplyInputTo(d, calls, Len(calls))

\* the log: each call with the deactivation depth at the moment it is made
RECURSIVE TraceFrom(_, _, _, _)
TraceFrom(d, calls, i, log) ==
    IF i > Len(calls) THEN log
    ELSE TraceFrom(InputCall(d, calls[i]), calls, i + 1,
                   Append(log, [op |-> calls[i].op, arg |-> calls[i].arg,
                                depth |-> d]))

Trace(d, calls) == TraceFrom(d, calls, 1, <<>>)

Count(log, op) == Cardinality({i \in 1..Len(log) : log[i].op = op})

Ops(log) == [i \in 1..Len(log) |-> log[i].op]

\* the arguments of the Session.Feed calls among the calls, in order
FeedArgs(calls) ==
    LET made == SelectSeq(calls, LAMBDA c : c.op = "Feed")
    IN  [i \in 1..Len(made) |-> made[i].arg]

----------------------------------------------------------------------------
(* Initial state: after the constructor has registered the callback *)

NoEvent ==
    [sym |-> "none", text |-> <<>>, calls |-> <<>>, lineBefore |-> <<>>,
     completions |-> <<>>, outcome |-> "returned", depthBefore |-> 0]

InitProc ==
    /\ terminal = [currentLine |-> <<>>, position |-> 0]
    /\ kbDepth = 0
    /\ stack = <<>>
    /\ last = NoEvent
    /\ nEvents = 0
    /\ nDeact = 0
    /\ nAct = 0
    /\ nExit = 0
    /\ nEof = 0
    /\ threw = FALSE
    /\ nKeypressed = 0
    /\ nDispatch = 0
    /\ cmds = <<>>
    /\ feeds = <<>>

Init ==
    /\ InitProc
    /\ cpIn = <<<<>>>>
    /\ cpOut = <<>>
    /\ cpDone = FALSE

----------------------------------------------------------------------------
(* Key events *)

\* the input device delivers a key only while it is active; the thread that
\* delivers is either idle or inside Session.Feed of the innermost event
Deliverable(k) ==
    /\ kbDepth = 0
    /\ nEvents < MaxEvents
    /\ Len(stack) < MaxDepth
    /\ (k.type = "ascii" /\ k.ch # "\t") => Len(terminal.currentLine) < MaxLen

\* the callback runs twice for one key event: the pair is dispatched twice
HandleTwice(r, made, completions) ==
    \E calls \in {made \o made} :
        /\ terminal' = ApplyTerminal(r.term, calls)
        /\ kbDepth' = ApplyInput(kbDepth, calls)
        /\ last' = [sym |-> r.sym, text |-> r.text,
                    calls |-> Trace(kbDepth, calls),
                    lineBefore |-> terminal.currentLine,
                    completions |-> completions,
                    outcome |-> "returned",
                    depthBefore |-> kbDepth]
        /\ nEvents' = nEvents + 1
        /\ nDeact' = nDeact + Count(calls, "DeactivateInput")
        /\ nAct' = nAct + Count(calls, "ActivateInput")
        /\ nExit' = nExit + Count(calls, "Exit")
        /\ nEof' = nEof + (IF r.sym = "eof" THEN 1 ELSE 0)
        /\ nKeypressed' = nKeypressed + 1
        /\ nDispatch' = nDispatch + 2
        /\ feeds' = feeds \o FeedArgs(calls)
        /\ UNCHANGED <<stack, threw, cmds, cpVars>>

\* Keypressed for a symbol whose case runs to its break without leaving
\* the processor's control; completions is what the session answers during
\* the event: the candidates for tab, the one history entry for up and down
Handle(r, made, completions) ==
    \E calls \in {made} :
        /\ terminal' = ApplyTerminal(r.term, calls)
        /\ kbDepth' = ApplyInput(kbDepth, calls)
        /\ last' = [sym |-> r.sym, text |-> r.text,
                    calls |-> Trace(kbDepth, calls),
                    lineBefore |-> terminal.currentLine,
                    completions |-> completions,
                    outcome |-> "returned",
                    depthBefore |-> kbDepth]
        /\ nEvents' = nEvents + 1
        /\ nDeact' = nDeact + Count(calls, "DeactivateInput")
        /\ nAct' = nAct + Count(calls, "ActivateInput")
        /\ nExit' = nExit + Count(calls, "Exit")
        /\ nEof' = nEof + (IF r.sym = "eof" THEN 1 ELSE 0)
        /\ nKeypressed' = nKeypressed + 1
        /\ nDispatch' = nDispatch + 1
        /\ feeds' = feeds \o FeedArgs(calls)
        /\ UNCHANGED <<stack, threw, cmds, cpVars>>

KeyNothing ==
    \E k \in Keys :
        LET r == TerminalKeypressed(terminal, k)
        IN  /\ Deliverable(k)
            /\ r.sym = "nothing"
            /\ Handle(r, CaseNothing, <<>>)

KeyEof ==
    \E k \in Keys :
        LET r == TerminalKeypressed(terminal, k)
        IN  /\ Deliverable(k)
            /\ r.sym = "eof"
            /\ Handle(r, CaseEof, <<>>)

KeyDown ==
    \E k \in Keys :
        LET r == TerminalKeypressed(terminal, k)
        IN  /\ Deliverable(k)
            /\ r.sym = "down"
            /\ \E next \in Strings : Handle(r, CaseDown(next), <<next>>)

KeyUp ==
    \E k \in Keys :
        LET r == TerminalKeypressed(terminal, k)
        IN  /\ Deliverable(k)
            /\ r.sym = "up"
            /\ \E prev \in Strings :
                  Handle(r, CaseUp(GetLine(r.term), prev), <<prev>>)

KeyTab ==
    \E k \in Keys :
        LET r == TerminalKeypressed(terminal, k)
        IN  /\ Deliverable(k)
            /\ r.sym = "tab"
            /\ \E completions \in CompletionSets :
                  Handle(r, CaseTab(GetLine(r.term), completions), completions)

KeyClear ==
    \E k \in Keys :
        LET r == TerminalKeypressed(terminal, k)
        IN  /\ Deliverable(k)
            /\ r.sym = "clear"
            /\ Handle(r, CaseClear(GetLine(r.term)), <<>>)

\* case Symbol::command, up to the point where Session.Feed is running
KeyCommand ==
    \E k \in Keys :
        LET r == TerminalKeypressed(terminal, k)
            calls == CaseCommandEnter(r.text)
        IN  /\ Deliverable(k)
            /\ r.sym = "command"
            /\ terminal' = ApplyTerminal(r.term, calls)
            /\ kbDepth' = ApplyInput(kbDepth, calls)
            /\ stack' = Append(stack,
                               [event |-> nEvents + 1,
                                text |-> r.text,
                                calls |-> Trace(kbDepth, calls),
                                lineBefore |-> terminal.currentLine,
                                depthBefore |-> kbDepth])
            /\ nEvents' = nEvents + 1
            /\ nDeact' = nDeact + Count(calls, "DeactivateInput")
            /\ nAct' = nAct + Count(calls, "ActivateInput")
            /\ nKeypressed' = nKeypressed + 1
            /\ nDispatch' = nDispatch + 1
            /\ cmds' = Append(cmds, r.text)
            /\ feeds' = feeds \o FeedArgs(calls)
            /\ UNCHANGED <<last, nExit, nEof, threw, cpVars>>

Top == stack[Len(stack)]

Pop == SubSeq(stack, 1, Len(stack) - 1)

\* Session.Feed returns: the rest of case Symbol::command runs
FeedReturn ==
    LET calls == CaseCommandResume
    IN  /\ stack # <<>>
        /\ terminal' = ApplyTerminal(terminal, calls)
        /\ kbDepth' = ApplyInput(kbDepth, calls)
        /\ last' = [sym |-> "command", text |-> Top.text,
                    calls |-> Top.calls \o Trace(kbDepth, calls),
                    lineBefore |-> Top.lineBefore,
                    completions |-> <<>>,
                    outcome |-> "returned",
                    depthBefore |-> Top.depthBefore]
        /\ stack' = Pop
        /\ nDeact' = nDeact + Count(calls, "DeactivateInput")
        /\ nAct' = nAct + Count(calls, "ActivateInput")
        /\ feeds' = feeds \o FeedArgs(calls)
        /\ UNCHANGED <<nEvents, nExit, nEof, threw, nKeypressed, nDispatch,
                       cmds, cpVars>>

\* Session.Feed leaves by an exception: nothing in NewCommand or Keypressed
\* catches it, so the rest of the case is skipped
FeedThrow ==
    /\ stack # <<>>
    /\ last' = [sym |-> "command", text |-> Top.text,
                calls |-> Top.calls,
                lineBefore |-> Top.lineBefore,
                completions |-> <<>>,
                outcome |-> "threw",
                depthBefore |-> Top.depthBefore]
    /\ stack' = Pop
    /\ threw' = TRUE
    /\ UNCHANGED <<terminal, kbDepth, nEvents, nDeact, nAct, nExit, nEof,
                   nKeypressed, nDispatch, cmds, feeds, cpVars>>

Next ==
    \/ KeyNothing
    \/ KeyEof
    \/ KeyCommand
    \/ FeedReturn
    \/ FeedThrow
    \/ KeyDown
    \/ KeyUp
    \/ KeyTab
    \/ KeyClear

Spec == Init /\ [][Next]_vars

----------------------------------------------------------------------------
(* CommonPrefix on its own: every non-empty sequence up to MaxSeq strings *)

InitPrefix ==
    /\ InitProc
    /\ cpIn \in PrefixInputs
    /\ cpOut = <<>>
    /\ cpDone = FALSE

ApplyCommonPrefix ==
    /\ ~cpDone
    /\ cpOut' = CommonPrefix(cpIn)
    /\ cpDone' = TRUE
    /\ UNCHANGED <<cpIn, procVars>>

NextPrefix == ApplyCommonPrefix

SpecPrefix == InitPrefix /\ [][NextPrefix]_vars

----------------------------------------------------------------------------
(* Properties of the command case *)

Returned == last.sym = "command" /\ last.outcome = "returned"

\* the state is the one the event recorded in last has just produced
Settled == stack = <<>>

InFeedLog(f) ==
    /\ Ops(f.calls) = <<"DeactivateInput", "Feed">>
    /\ f.calls[2].arg = f.text
    /\ f.calls[2].depth > 0

\* C1: while a command symbol is handled the calls are, in this order,
\* DeactivateInput, Feed(text), Prompt, ActivateInput and nothing else; the
\* input device is deactivated when Feed is invoked, while Feed runs and when
\* Prompt is invoked, and ActivateInput directly follows Prompt.
C1_CommandCallOrder ==
    /\ \A i \in 1..Len(stack) : InFeedLog(stack[i]) /\ kbDepth > 0
    /\ (last.sym = "command" /\ last.outcome = "threw") => InFeedLog(last)
    /\ Returned =>
        /\ Ops(last.calls) =
              <<"DeactivateInput", "Feed", "Prompt", "ActivateInput">>
        /\ last.calls[2].arg = last.text
        /\ last.calls[2].depth > 0
        /\ last.calls[3].depth > 0

C1_Witness ==
    /\ Settled
    /\ Returned
    /\ last.text # <<>>
    /\ Len(last.calls) = 4
    /\ kbDepth = 0

\* C2: whatever the outcome of Session.Feed, the handling of a command event
\* ends with Prompt and ActivateInput called and the input device active.
C2_ReactivatedWhateverFeedDoes ==
    (Settled /\ last.sym = "command") =>
        /\ Count(last.calls, "Prompt") = 1
        /\ Count(last.calls, "ActivateInput") = 1
        /\ kbDepth = 0

\* C3: while an event's command is executing inside Session.Feed no key
\* event is delivered to the processor and no further handling starts: the
\* event inside Feed is the latest one delivered, and it is the only one in
\* progress.
C3_NoReentrantKey ==
    /\ Len(stack) <= 1
    /\ \A i \in 1..Len(stack) : stack[i].event = nEvents

C3_Witness ==
    /\ Len(stack) = 1
    /\ kbDepth = 1
    /\ nEvents < MaxEvents
    /\ InFeedLog(stack[1])

\* C4: DeactivateInput and ActivateInput are called only for a command
\* symbol, once each and Deactivate first; when every event is fully handled
\* and no Feed has thrown the two counts are equal, the nesting depth never
\* exceeds 1, and any other symbol leaves the activation state as it was.
C4_ActivationPaired ==
    /\ kbDepth <= 1
    /\ (Settled /\ ~threw) => (nDeact = nAct /\ kbDepth = 0)
    /\ Returned =>
        /\ Count(last.calls, "DeactivateInput") = 1
        /\ Count(last.calls, "ActivateInput") = 1
        /\ last.calls[1].op = "DeactivateInput"
        /\ last.calls[Len(last.calls)].op = "ActivateInput"
    /\ last.sym # "command" =>
        /\ Count(last.calls, "DeactivateInput") = 0
        /\ Count(last.calls, "ActivateInput") = 0
        /\ Settled => kbDepth = last.depthBefore

C4_Witness ==
    /\ Settled
    /\ ~threw
    /\ Returned
    /\ nDeact = 2
    /\ nAct = 2

----------------------------------------------------------------------------
(* Properties of the eof, tab and clear cases *)

\* C5: an eof symbol results in exactly one Session.Exit call and in no
\* other call on the session, the terminal or the input device.
C5_EofOnlyExits ==
    last.sym = "eof" =>
        /\ Ops(last.calls) = <<"Exit">>
        /\ Settled =>
            /\ terminal.currentLine = last.lineBefore
            /\ kbDepth = last.depthBefore

C5_Witness ==
    /\ Settled
    /\ last.sym = "eof"
    /\ last.lineBefore # <<>>
    /\ nExit = 1

TabWith(n) == last.sym = "tab" /\ Len(last.completions) = n

TabSeveral == last.sym = "tab" /\ Len(last.completions) >= 2

\* C6: with exactly one candidate c the edit buffer after a tab event is c
\* followed by one space, whatever the buffer was, and neither output nor a
\* prompt is written.
C6_SingleCandidate ==
    TabWith(1) =>
        /\ last.calls[Len(last.calls)] =
              [op |-> "SetLine", arg |-> last.completions[1] \o <<" ">>,
               depth |-> 0]
        /\ Count(last.calls, "SetLine") = 1
        /\ Count(last.calls, "Write") = 0
        /\ Count(last.calls, "Prompt") = 0
        /\ Settled => terminal.currentLine = last.completions[1] \o <<" ">>

C6_Witness ==
    /\ Settled
    /\ TabWith(1)
    /\ Len(last.completions[1]) < Len(last.lineBefore)
    /\ terminal.currentLine = last.completions[1] \o <<" ">>

\* C7 as stated: with a non-empty candidate set of any size whose common
\* prefix is no longer than the line, a tab event leaves the buffer as it was.
C7_AnySizeKeepsBuffer ==
    (Settled /\ last.sym = "tab" /\ last.completions # <<>>
       /\ Len(CommonPrefix(last.completions)) <= Len(last.lineBefore))
        => terminal.currentLine = last.lineBefore

\* C7 amended: with two or more candidates whose common prefix is no longer
\* than the line, a tab event leaves the buffer as it was.
C7_SeveralKeepBuffer ==
    (Settled /\ TabSeveral
       /\ Len(CommonPrefix(last.completions)) <= Len(last.lineBefore))
        => terminal.currentLine = last.lineBefore

C7_Witness ==
    /\ Settled
    /\ TabSeveral
    /\ Len(CommonPrefix(last.completions)) < Len(last.lineBefore)
    /\ terminal.currentLine = last.lineBefore
    /\ Count(last.calls, "Write") = 3

\* C8: a clear symbol results in exactly one screen clear, exactly one
\* prompt, and a buffer equal to the text in progress; no command is fed, no
\* history or completion is asked for, and the activation is unchanged.
C8_ClearKeepsBuffer ==
    last.sym = "clear" =>
        /\ Count(last.calls, "Clear") = 1
        /\ Count(last.calls, "Prompt") = 1
        /\ Count(last.calls, "Feed") = 0
        /\ Count(last.calls, "NextCmd") = 0
        /\ Count(last.calls, "PreviousCmd") = 0
        /\ Count(last.calls, "GetCompletions") = 0
        /\ Count(last.calls, "DeactivateInput") = 0
        /\ Count(last.calls, "ActivateInput") = 0
        /\ Settled =>
            /\ terminal.currentLine = last.lineBefore
            /\ kbDepth = last.depthBefore

C8_Witness ==
    /\ Settled
    /\ last.sym = "clear"
    /\ Len(last.lineBefore) = MaxLen
    /\ terminal.currentLine = last.lineBefore

\* C9: for every non-empty sequence of strings the result of CommonPrefix is
\* a prefix of every element and no longer string is; it is the element when
\* all elements are the same and empty when two elements differ in their
\* first character.
C9_CommonPrefixLongest ==
    cpDone =>
        /\ \A i \in 1..Len(cpIn) : IsPrefix(cpOut, cpIn[i])
        /\ \A s \in Words :
              (\A i \in 1..Len(cpIn) : IsPrefix(s, cpIn[i]))
                  => Len(s) <= Len(cpOut)
        /\ (\A i \in 1..Len(cpIn) : cpIn[i] = cpIn[1]) => cpOut = cpIn[1]
        /\ (\E i, j \in 1..Len(cpIn) :
               /\ cpIn[i] # <<>>
               /\ cpIn[j] # <<>>
               /\ cpIn[i][1] # cpIn[j][1]) => cpOut = <<>>

C9_Witness ==
    /\ cpDone
    /\ Len(cpIn) = MaxSeq
    /\ cpOut # <<>>
    /\ cpIn[1] = cpIn[2]
    /\ cpIn[3] # cpIn[1]
    /\ Len(cpOut) < Len(cpIn[1])

\* C10: with two or more candidates, a common prefix strictly longer than
\* the line becomes the buffer and nothing is written; a common prefix of the
\* same length or shorter gives the listing.
C10_PrefixOnlyWhenLonger ==
    TabSeveral =>
        LET commonPrefix == CommonPrefix(last.completions)
        IN  IF Len(commonPrefix) > Len(last.lineBefore)
            THEN /\ Count(last.calls, "Write") = 0
                 /\ Count(last.calls, "Prompt") = 0
                 /\ Count(last.calls, "SetLine") = 1
                 /\ last.calls[Len(last.calls)].op = "SetLine"
                 /\ last.calls[Len(last.calls)].arg = commonPrefix
                 /\ Settled => terminal.currentLine = commonPrefix
            ELSE /\ Count(last.calls, "Write") = 3
                 /\ Count(last.calls, "Prompt") = 1
                 /\ last.calls[Len(last.calls)].arg = last.lineBefore

C10_Witness ==
    /\ Settled
    /\ TabSeveral
    /\ last.lineBefore # <<>>
    /\ Len(CommonPrefix(last.completions)) = Len(last.lineBefore)
    /\ Count(last.calls, "Write") = 3

----------------------------------------------------------------------------
(* Further properties of the cases *)

\* C11: when the session returns no completions a tab event ends after the
\* query: no SetLine, no output, no prompt, no cursor reset and no
\* CommonPrefix, and the terminal is as it was.
C11_EmptyCompletionsNoOp ==
    TabWith(0) =>
        /\ last.calls =
              <<[op |-> "GetLine", arg |-> <<>>, depth |-> last.depthBefore],
                [op |-> "GetCompletions", arg |-> last.lineBefore,
                 depth |-> last.depthBefore]>>
        /\ Count(last.calls, "SetLine") = 0
        /\ Count(last.calls, "Write") = 0
        /\ Count(last.calls, "Prompt") = 0
        /\ Count(last.calls, "ResetCursor") = 0
        /\ Count(last.calls, "CommonPrefix") = 0
        /\ Settled =>
            /\ terminal.currentLine = last.lineBefore
            /\ terminal.position = Len(last.lineBefore)

C11_Witness ==
    /\ Settled
    /\ TabWith(0)
    /\ last.lineBefore # <<>>
    /\ terminal.currentLine = last.lineBefore


\* the candidates each preceded by a horizontal tab, the first n of them
RECURSIVE TabSeparated(_, _)
TabSeparated(candidates, n) ==
    IF n = 0 THEN <<>>
    ELSE TabSeparated(candidates, n - 1) \o <<"\t">> \o candidates[n]

InListing ==
    /\ TabSeveral
    /\ Len(CommonPrefix(last.completions)) <= Len(last.lineBefore)

\* C14: in the listing branch of tab the calls after the query are, in this
\* order: a newline written, the candidates in the session's order each
\* preceded by a horizontal tab, a newline, Prompt, ResetCursor, and
\* SetLine of the line read at the start of the event.
C14_ListingOrder ==
    InListing =>
        /\ Ops(last.calls) =
              <<"GetLine", "GetCompletions", "CommonPrefix", "Write", "Write",
                "Write", "Prompt", "ResetCursor", "SetLine">>
        /\ last.calls[4].arg = <<"\n">>
        /\ last.calls[5].arg =
              TabSeparated(last.completions, Len(last.completions))
        /\ last.calls[6].arg = <<"\n">>
        /\ last.calls[9].arg = last.lineBefore
        /\ Settled => terminal.position = Len(last.lineBefore)

C14_Witness ==
    /\ Settled
    /\ InListing
    /\ last.completions[1] # last.completions[2]
    /\ last.completions[1] # <<>>
    /\ last.completions[2] # <<>>
    /\ Len(last.calls) = 9

\* C15: a clear symbol captures the buffer (GetLine) before the screen is
\* cleared, clears before the prompt, prompts before ResetCursor, and restores
\* the captured buffer (SetLine) last.
C15_ClearOrder ==
    last.sym = "clear" =>
        /\ Ops(last.calls) =
              <<"GetLine", "Clear", "Prompt", "ResetCursor", "SetLine">>
        /\ last.calls[5].arg = last.lineBefore

C15_Witness ==
    /\ Settled
    /\ last.sym = "clear"
    /\ last.lineBefore # <<>>
    /\ Len(last.calls) = 5

\* C16: a nothing symbol makes the processor call nothing: no session
\* method, no output, no GetLine or SetLine, and the activation is unchanged.
C16_NothingNoEffect ==
    last.sym = "nothing" =>
        /\ last.calls = <<>>
        /\ Settled => kbDepth = last.depthBefore

C16_Witness ==
    /\ Settled
    /\ last.sym = "nothing"
    /\ terminal.currentLine # last.lineBefore
    /\ last.calls = <<>>

Genuine ==
    \A i \in 1..Len(last.completions) :
        IsPrefix(last.lineBefore, last.completions[i])

C12_HistoryVerbatim ==
    /\ last.sym = "up" =>
        /\ Ops(last.calls) = <<"GetLine", "PreviousCmd", "SetLine">>
        /\ last.calls[2].arg = last.lineBefore
        /\ last.calls[3].arg = last.completions[1]
        /\ Settled => terminal.currentLine = last.completions[1]
    /\ last.sym = "down" =>
        /\ Ops(last.calls) = <<"NextCmd", "SetLine">>
        /\ last.calls[2].arg = last.completions[1]
        /\ Settled => terminal.currentLine = last.completions[1]

C12_Witness ==
    /\ Settled
    /\ last.sym = "up"
    /\ last.lineBefore # <<>>
    /\ last.completions[1] # <<>>
    /\ last.completions[1] # last.lineBefore
    /\ terminal.currentLine = last.completions[1]


Distinctive ==
    [eof |-> "Exit", command |-> "Feed", down |-> "NextCmd",
     up |-> "PreviousCmd", tab |-> "GetCompletions", clear |-> "Clear"]

\* C17: each key event delivered causes one Terminal.Keypressed call and one
\* dispatch, on the one pair returned: the event's calls are those of the
\* case of its symbol, made once, and of no other case.
C17_OneDispatchPerKey ==
    /\ nKeypressed = nEvents
    /\ nDispatch = nEvents
    /\ \A s \in DOMAIN Distinctive :
          Count(last.calls, Distinctive[s]) = (IF last.sym = s THEN 1 ELSE 0)
    /\ last.sym = "nothing" => last.calls = <<>>

C17_Witness ==
    /\ Settled
    /\ nEvents = MaxEvents
    /\ nKeypressed = MaxEvents
    /\ nDispatch = MaxEvents
    /\ last.sym = "tab"
    /\ Len(last.completions) = MaxCands

\* C18: Session.Exit is called only while an eof symbol is handled: the
\* number of Exit calls is the number of eof symbols handled, and the log of
\* any other event holds no Exit.
C18_ExitOnlyOnEof ==
    /\ nExit = nEof
    /\ last.sym # "eof" => Count(last.calls, "Exit") = 0
    /\ last.sym = "eof" => Count(last.calls, "Exit") = 1
    /\ \A i \in 1..Len(stack) : Count(stack[i].calls, "Exit") = 0

C18_Witness ==
    /\ Settled
    /\ nEof = 1
    /\ nExit = 1
    /\ nEvents = 2
    /\ last.sym \notin {"eof", "none"}

====
